---- MODULE Spec2Model ----
(***************************************************************************)
(* A model of the tail list of src/src/lib.rs: a linked list whose nodes   *)
(* carry, besides the `next` link they own, a raw pointer `owning_link` to *)
(* the link that owns them.  Memory is modelled as a flat store of node    *)
(* cells addressed by small integers; a freed cell may be handed out again *)
(* by the allocator.  A call made through a raw pointer to a freed cell is *)
(* undefined behaviour: the call finds any contents in that cell, acts on  *)
(* them, and the run is followed no further (ub).  A call through a stale  *)
(* pointer to a cell that was handed out again acts on the new node.       *)
(***************************************************************************)
EXTENDS Integers, Sequences, FiniteSets, TLC

\* ------------------------------------------------------------------ bounds
MaxNodes == 4      \* node cells the allocator can hand out
MaxVal == 2        \* payloads are 1..MaxVal
MaxDepth == 2      \* nesting depth of live cursors
MaxPassive == 1    \* live ValRef handles
MaxFill == 3       \* pushes of the fill-and-iterate scenario

\* ------------------------------------------------------------- memory model
\* Link(None): a link linking to nothing (lib.rs:110).
NONE == 0
\* The address of TailList.head; the link Node.next of cell n has address n.
HEAD == 0
\* Node.val = None: the node is a dummy (lib.rs:50-55).
NoVal == 0

Nodes == 1..MaxNodes
Links == 0..MaxNodes
Values == 1..MaxVal

VARIABLES
    link,          \* link[l]: the node link l owns, or NONE (Link.0)
    owning_link,   \* owning_link[n]: Node.owning_link, the address of a link
    val,           \* val[n]: Node.val, NoVal for a dummy
    live,          \* the allocated cells
    frames,        \* the live cursors, outermost first (see NewFrame)
    passive,       \* the live ValRef handles (see Handle)
    last,          \* the last call and what it returned: [op, node, ret]
    panicked,      \* a panic (expect / unreachable!) has been raised
    ub,            \* a freed cell has been accessed
    pushed,        \* fill scenario: the values pushed so far
    yielded        \* fill scenario: the values the cursor has yielded

vars == <<link, owning_link, val, live, frames, passive, last, panicked, ub,
          pushed, yielded>>
heap == <<link, owning_link, val, live>>

\* The memory as one value, for the algorithms below.
Mem == [link |-> link, owning_link |-> owning_link, val |-> val, live |-> live]

\* Box<NodeOwn<T>> dropped: the node's `next` link is dropped first (and so
\* everything it owns, recursively), then the cell is freed.  The cells keep
\* their contents.
RECURSIVE drop_link(_, _, _)
drop_link(m, n, fuel) ==
    IF n = NONE \/ fuel = 0
    THEN m
    ELSE drop_link([m EXCEPT !.live = @ \ {n}], m.link[n], fuel - 1)

\* fixup_owning_link left out.
fixup_owning_link_skip(m, l) == m

fixup_owning_link(m, l) ==
    IF m.link[l] # NONE
    THEN [m EXCEPT !.owning_link[m.link[l]] = l]
    ELSE m

\* insert_at without the move of the tail of `link` to the new node.
insert_at_no_tail(m, l, v, n) ==
    [m EXCEPT !.link[n] = NONE, !.owning_link[n] = l, !.val[n] = v,
              !.link[l] = n, !.live = @ \cup {n}]

\* insert_at(link, val), the new node being boxed in cell n.
insert_at(m, l, v, n) ==
    LET tail == m.link[l]
        \* mem::swap(link, next): the link is emptied, the node takes the tail
        m1 == [m EXCEPT !.link[l] = NONE]
        \* Box::new(node): the node is moved into cell n
        m2 == [m1 EXCEPT !.link[n] = tail, !.owning_link[n] = l, !.val[n] = v,
                         !.live = @ \cup {n}]
        \* *link = ...: the old value of the link is dropped, then overwritten
        m3 == drop_link(m2, m2.link[l], MaxNodes)
        m4 == [m3 EXCEPT !.link[l] = n, !.live = @ \cup {n}]
    IN  fixup_owning_link(m4, n)

\* swap_places without the swap of the next links.
swap_places_no_next(m, a, b) ==
    LET al == m.owning_link[a]
        bl == m.owning_link[b]
        m1 == [m EXCEPT !.link[al] = m.link[bl], !.link[bl] = m.link[al]]
        m3 == fixup_owning_link(m1, m1.owning_link[a])
        m4 == fixup_owning_link(m3, m3.owning_link[b])
        m5 == fixup_owning_link(m4, a)
    IN  fixup_owning_link(m5, b)

swap_places(m, a, b) ==
    LET al == m.owning_link[a]
        bl == m.owning_link[b]
        m1 == [m EXCEPT !.link[al] = m.link[bl], !.link[bl] = m.link[al]]
        m2 == [m1 EXCEPT !.link[a] = m1.link[b], !.link[b] = m1.link[a]]
        m3 == fixup_owning_link(m2, m2.owning_link[a])
        m4 == fixup_owning_link(m3, m3.owning_link[b])
        m5 == fixup_owning_link(m4, a)
    IN  fixup_owning_link(m5, b)

\* unlink without the fixup of the owning link.
unlink_no_fixup(m, n) ==
    LET ol == m.owning_link[n]
        tmp == m.link[ol]
        m1 == [m EXCEPT !.link[ol] = NONE]
        m2 == [m1 EXCEPT !.link[ol] = m1.link[n], !.link[n] = m1.link[ol]]
    IN  IF tmp = NONE
        THEN [mem |-> m2, ret |-> NoVal, ok |-> FALSE]
        ELSE [mem |-> drop_link([m2 EXCEPT !.live = @ \ {tmp}],
                                m2.link[tmp], MaxNodes),
              ret |-> m2.val[tmp], ok |-> TRUE]

\* unlink(node_ref): [mem, ret, ok]; ok is FALSE when the expect panics.
unlink(m, n) ==
    LET ol == m.owning_link[n]
        \* mem::swap(tmp_link, owning_link)
        tmp == m.link[ol]
        m1 == [m EXCEPT !.link[ol] = NONE]
        \* mem::swap(owning_link, next)
        m2 == [m1 EXCEPT !.link[ol] = m1.link[n], !.link[n] = m1.link[ol]]
        m3 == fixup_owning_link(m2, ol)
    IN  IF tmp = NONE
        THEN [mem |-> m3, ret |-> NoVal, ok |-> FALSE]
        ELSE \* the node tmp owned is taken out of its box and its value
             \* returned; the rest of the node is dropped
             [mem |-> drop_link([m3 EXCEPT !.live = @ \ {tmp}],
                                m3.link[tmp], MaxNodes),
              ret |-> m3.val[tmp], ok |-> TRUE]

\* Cursor::next without the recursion: a dummy behind the cursor's dummy is
\* not skipped and the call does not return.
cursor_next_once(m, d, fuel) ==
    LET next_ref == m.link[d]
        m1 == swap_places(m, d, next_ref)
    IN  IF next_ref = NONE
        THEN [mem |-> m, ret |-> NONE, ok |-> TRUE]
        ELSE IF m1.val[next_ref] = NoVal
        THEN [mem |-> m1, ret |-> NONE, ok |-> FALSE]
        ELSE [mem |-> m1, ret |-> next_ref, ok |-> TRUE]

\* Cursor::next without the swap_places: the dummy stays where it is.
cursor_next_stay(m, d, fuel) ==
    [mem |-> m, ret |-> m.link[d], ok |-> TRUE]

\* Cursor::next on the cursor whose dummy is d: [mem, ret, ok]; ret is the
\* node handed out, NONE at the end of the list.  The recursion of the code
\* is followed for at most `fuel` calls; running out of it stands for the
\* call never returning (stack exhaustion).
RECURSIVE cursor_next(_, _, _)
cursor_next(m, d, fuel) ==
    LET next_ref == m.link[d]
        m1 == swap_places(m, d, next_ref)
    IN  IF next_ref = NONE
        THEN [mem |-> m, ret |-> NONE, ok |-> TRUE]
        ELSE IF fuel = 0
        THEN [mem |-> m1, ret |-> NONE, ok |-> FALSE]
        ELSE IF m1.val[next_ref] = NoVal
        THEN cursor_next(m1, d, fuel - 1)
        ELSE [mem |-> m1, ret |-> next_ref, ok |-> TRUE]

\* ValRef::remove without the unreachable!().
valref_remove_unchecked(m, n) == unlink(m, n)

\* ValRef::remove: unlink, then unreachable!() if the node had no value.
valref_remove(m, n) ==
    LET r == unlink(m, n)
    IN  [mem |-> r.mem, ret |-> r.ret, ok |-> r.ok /\ r.ret # NoVal]

\* ValRef::insert_before / insert_after: the link the new node goes to.
insert_before_link(m, n) == m.owning_link[n]
insert_after_link(m, n) == n

\* ------------------------------------------------------- reading the list
\* The nodes reached from link l by following `next`, at most k of them.
RECURSIVE Chain(_, _, _)
Chain(m, l, k) ==
    IF m.link[l] = NONE \/ k = 0
    THEN <<>>
    ELSE <<m.link[l]>> \o Chain(m, m.link[l], k - 1)

ListNodes(m) == Chain(m, HEAD, MaxNodes + 1)
ValueNodes(m, s) == SelectSeq(s, LAMBDA n : m.val[n] # NoVal)
ValsOf(m, s) == [i \in 1..Len(s) |-> m.val[s[i]]]

\* ------------------------------------------------------------ API handles
\* The borrows of the public signatures, as guards.  Cursor i borrows what
\* created it; the TailValRef it returned (frames[i].cur) borrows cursor i;
\* a ValRef of level j carries the node lifetime of cursor j.  An active item
\* of level i can be used when no deeper cursor and no deeper ValRef is live.
Top == Len(frames)
Running == ~panicked /\ ~ub
Active(i) == Running /\ i = Len(frames) /\ \A p \in passive : p.lvl <= i
HasRef == Top >= 1 /\ Active(Top) /\ frames[Top].cur # NONE
Cur == frames[Top].cur
\* The cells the allocator can hand out: those of the memory not allocated.
Free == (DOMAIN val) \ live
Room(keep) == keep => Cardinality(passive) < MaxPassive

\* A Cursor: its dummy node and the TailValRef it has handed out (cur).  For
\* the properties: the node it was split from (head), the nodes of the list
\* when it was created (snap, kept while nothing was inserted or removed),
\* the inserts and removes since it was created (mut: Clean for none, ByOwn
\* once one went through a handle this cursor returned, ByOther otherwise),
\* whether its next() has returned None (done), and whether a cursor split
\* from a handle it returned was dropped after an insert or remove through
\* a handle of its own (kid).
Clean == "clean"
ByOwn == "own"
ByOther == "other"

NewFrame(d, h, s) ==
    [dummy |-> d, cur |-> NONE, head |-> h, snap |-> s, mut |-> Clean,
     done |-> FALSE, kid |-> FALSE]

\* A ValRef of node n with the node lifetime of cursor lvl.  For the
\* properties: the call that returned it (via) and the node's value then.
Handle(m, n, lvl, via) ==
    [node |-> n, lvl |-> lvl, via |-> via, orig |-> m.val[n]]

\* The cursors after an insert or remove through a handle that cursor lvl
\* returned.
Dirty(fr, lvl) ==
    [i \in DOMAIN fr |->
        [fr[i] EXCEPT !.snap = <<>>,
                      !.mut = IF i = lvl THEN ByOwn
                              ELSE IF @ = Clean THEN ByOther ELSE @]]

\* What a call through a pointer to cell n finds: the memory as it is, or,
\* the cell being freed, that cell with any contents.
Deref(n) ==
    IF n \in live
    THEN {Mem}
    ELSE {[Mem EXCEPT !.link[n] = a, !.owning_link[n] = b, !.val[n] = c] :
              a \in Links, b \in Links, c \in 0..MaxVal}

\* Freed cells are kept blank: what they hold is read only through Deref,
\* which finds anything there.
Blank(m) ==
    [link |-> [l \in DOMAIN m.link |->
                  IF l = HEAD \/ l \in m.live THEN m.link[l] ELSE NONE],
     owning_link |-> [n \in DOMAIN m.owning_link |->
                         IF n \in m.live THEN m.owning_link[n] ELSE HEAD],
     val |-> [n \in DOMAIN m.val |-> IF n \in m.live THEN m.val[n] ELSE NoVal],
     live |-> m.live]

SetMem(m) ==
    /\ link' = Blank(m).link
    /\ owning_link' = Blank(m).owning_link
    /\ val' = Blank(m).val
    /\ live' = m.live

Call(op, node, ret) == last' = [op |-> op, node |-> node, ret |-> ret]
NoGhost == UNCHANGED <<pushed, yielded>>

Init ==
    /\ link = [l \in Links |-> NONE]
    /\ owning_link = [n \in Nodes |-> HEAD]
    /\ val = [n \in Nodes |-> NoVal]
    /\ live = {}
    /\ frames = <<>>
    /\ passive = {}
    /\ last = [op |-> "new", node |-> NONE, ret |-> NONE]
    /\ panicked = FALSE
    /\ ub = FALSE
    /\ pushed = <<>>
    /\ yielded = <<>>

\* TailList::push
PushCore(v) ==
    /\ Active(0)
    /\ \E n \in Free : SetMem(insert_at(Mem, HEAD, v, n))
    /\ Call("push", NONE, NONE)
    /\ UNCHANGED <<frames, passive, panicked, ub>>

\* TailList::cursor
CursorCore ==
    /\ Active(0)
    /\ \E n \in Free :
        /\ SetMem(insert_at(Mem, HEAD, NoVal, n))
        /\ frames' = <<NewFrame(n, NONE, ListNodes(Mem))>>
    /\ Call("cursor", NONE, NONE)
    /\ UNCHANGED <<passive, panicked, ub>>

\* Cursor::next on the innermost cursor; keep: the TailValRef it returns is
\* held after the statement of the call.
NextCore(keep) ==
    /\ Top >= 1 /\ Active(Top) /\ frames[Top].cur = NONE
    /\ \E m \in Deref(frames[Top].dummy) :
         LET r == cursor_next(m, frames[Top].dummy, MaxNodes)
         IN  /\ SetMem(r.mem)
             /\ frames' = [frames EXCEPT ![Top].cur = IF keep THEN r.ret
                                                       ELSE NONE,
                                         ![Top].done = @ \/ r.ret = NONE]
             /\ panicked' = ~r.ok
             /\ Call("next", frames[Top].dummy, r.ret)
    /\ ub' = (frames[Top].dummy \notin live)
    /\ UNCHANGED passive

\* Drop for Cursor, on the innermost cursor
DropCursorCore ==
    /\ Top >= 1 /\ Active(Top) /\ frames[Top].cur = NONE
    /\ \E m \in Deref(frames[Top].dummy) :
         LET r == unlink(m, frames[Top].dummy)
         IN  /\ SetMem(r.mem)
             /\ panicked' = ~r.ok
    /\ ub' = (frames[Top].dummy \notin live)
    /\ frames' = [i \in 1..Top - 1 |->
                     IF i = Top - 1
                     THEN [frames[i] EXCEPT !.kid = @ \/ frames[Top].mut = ByOwn]
                     ELSE frames[i]]
    /\ Call("drop_cursor", frames[Top].dummy, NONE)
    /\ UNCHANGED passive

Push(v) == PushCore(v) /\ NoGhost
NewCursor == CursorCore /\ NoGhost
CursorNext == NextCore(TRUE) /\ NoGhost
DropCursor == DropCursorCore /\ NoGhost

\* A TailValRef goes out of scope (it has no destructor).
DropTailValRef ==
    /\ HasRef
    /\ frames' = [frames EXCEPT ![Top].cur = NONE]
    /\ Call("drop_ref", Cur, NONE)
    /\ UNCHANGED <<heap, passive, panicked, ub>> /\ NoGhost

\* TailValRef::into_passive
IntoPassive ==
    /\ HasRef /\ Room(TRUE)
    /\ frames' = [frames EXCEPT ![Top].cur = NONE]
    /\ passive' = passive \cup {Handle(Mem, Cur, Top, "into_passive")}
    /\ Call("into_passive", Cur, Cur)
    /\ UNCHANGED <<heap, panicked, ub>> /\ NoGhost

\* ValRef::insert_before / insert_after through the handle of node h, whose
\* node lifetime is that of cursor lvl; keep: the returned ValRef is kept.
InsertCore(h, lvl, before, v, keep) ==
    /\ Room(keep)
    /\ \E n \in Free, m \in Deref(h) :
         LET m1 == insert_at(m, IF before THEN insert_before_link(m, h)
                                ELSE insert_after_link(m, h), v, n)
         IN  /\ SetMem(m1)
             /\ passive' = IF keep
                           THEN passive \cup {Handle(m1, n, lvl, "insert")}
                           ELSE passive
             /\ Call(IF before THEN "insert_before" ELSE "insert_after", h, n)
    /\ ub' = (h \notin live)
    /\ frames' = Dirty(frames, lvl)
    /\ UNCHANGED panicked /\ NoGhost

\* TailValRef::insert_before / insert_after
TailInsert(before, v, keep) ==
    /\ HasRef
    /\ InsertCore(Cur, Top, before, v, keep)

\* ValRef::insert_before / insert_after on a live ValRef
RefInsert(p, before, v, keep) ==
    /\ Running /\ p \in passive
    /\ InsertCore(p.node, p.lvl, before, v, keep)

\* ValRef::remove through the handle of node h
RemoveCore(h) ==
    /\ \E m \in Deref(h) :
         LET r == valref_remove(m, h)
         IN  /\ SetMem(r.mem)
             /\ panicked' = ~r.ok
             /\ Call("remove", h, r.ret)
    /\ ub' = (h \notin live)
    /\ NoGhost

\* TailValRef::remove
TailRemove ==
    /\ HasRef
    /\ RemoveCore(Cur)
    /\ frames' = [Dirty(frames, Top) EXCEPT ![Top].cur = NONE]
    /\ UNCHANGED passive

\* ValRef::remove on a live ValRef
RefRemove(p) ==
    /\ Running /\ p \in passive
    /\ RemoveCore(p.node)
    /\ passive' = passive \ {p}
    /\ frames' = Dirty(frames, p.lvl)

\* Cursor::new(&node.next) of TailValRef::tail and into_tail
SplitCore(fr) ==
    /\ HasRef /\ Top < MaxDepth
    /\ \E n \in Free, m \in Deref(Cur) :
        /\ SetMem(insert_at(m, insert_after_link(m, Cur), NoVal, n))
        /\ frames' = Append(fr, NewFrame(n, Cur, ListNodes(Mem)))
    /\ ub' = (Cur \notin live)
    /\ UNCHANGED panicked /\ NoGhost

\* TailValRef::tail: the handle stays, borrowed by the new cursor.
TailCursor ==
    /\ SplitCore(frames)
    /\ Call("tail", Cur, NONE)
    /\ UNCHANGED passive

\* TailValRef::into_tail: the handle is consumed; keep: its ValRef is kept.
IntoTail(keep) ==
    /\ Room(keep)
    /\ SplitCore([frames EXCEPT ![Top].cur = NONE])
    /\ passive' = IF keep
                  THEN passive \cup {Handle(Mem, Cur, Top, "into_tail")}
                  ELSE passive
    /\ Call("into_tail", Cur, NONE)

\* A ValRef goes out of scope (it has no destructor).
DropValRef(p) ==
    /\ Running /\ p \in passive
    /\ passive' = passive \ {p}
    /\ Call("drop_ref", p.node, NONE)
    /\ UNCHANGED <<heap, frames, panicked, ub>> /\ NoGhost

Next ==
    \/ \E v \in Values : Push(v)
    \/ NewCursor
    \/ CursorNext
    \/ DropCursor
    \/ DropTailValRef
    \/ IntoPassive
    \/ \E b \in BOOLEAN, v \in Values, k \in BOOLEAN : TailInsert(b, v, k)
    \/ TailRemove
    \/ TailCursor
    \/ \E k \in BOOLEAN : IntoTail(k)
    \/ \E p \in passive, b \in BOOLEAN, v \in Values, k \in BOOLEAN :
           RefInsert(p, b, v, k)
    \/ \E p \in passive : RefRemove(p)
    \/ \E p \in passive : DropValRef(p)

Spec == Init /\ [][Next]_vars

\* ------------------------------------------------------------ validation
\* Validator::validate of the tests: every node reached from the head is
\* owned by the link its owning_link names.
BackLinkOK ==
    LET s == ListNodes(Mem)
    IN  \A i \in 1..Len(s) :
            owning_link[s[i]] = (IF i = 1 THEN HEAD ELSE s[i - 1])

\* ------------------------------------------- the fill-and-iterate scenario
\* fill_and_iter of the tests: values are pushed onto the new list, then one
\* cursor is created and next() is called on it, the handle it returns being
\* read and dropped within the statement; what it yields is recorded.
FillPush(v) ==
    /\ Len(pushed) < MaxFill
    /\ PushCore(v)
    /\ pushed' = Append(pushed, v)
    /\ UNCHANGED yielded

FillCursor ==
    /\ CursorCore
    /\ UNCHANGED <<pushed, yielded>>

FillNext ==
    /\ NextCore(FALSE)
    /\ yielded' = IF last'.ret = NONE THEN yielded
                  ELSE Append(yielded, val'[last'.ret])
    /\ UNCHANGED pushed

NextFill ==
    \/ \E v \in Values : FillPush(v)
    \/ FillCursor
    \/ FillNext

SpecFill == Init /\ [][NextFill]_vars

\* ------------------------------------------------- calls made on a state
\* The calls the properties make on a state to see what they return: the
\* code of the call applied to the memory, which stays as it is.
MemNext == [link |-> link', owning_link |-> owning_link', val |-> val',
            live |-> live']

\* A cell for the dummy node of one more cursor.
Scratch == MaxNodes + 1

Ext(m) ==
    [link |-> [l \in 0..Scratch |-> IF l = Scratch THEN NONE ELSE m.link[l]],
     owning_link |-> [n \in 1..Scratch |->
                         IF n = Scratch THEN HEAD ELSE m.owning_link[n]],
     val |-> [n \in 1..Scratch |-> IF n = Scratch THEN NoVal ELSE m.val[n]],
     live |-> m.live]

\* The cursors fr are dropped, innermost first.
RECURSIVE Release(_, _)
Release(m, fr) ==
    IF fr = <<>>
    THEN m
    ELSE Release(unlink(m, fr[Len(fr)].dummy).mem, SubSeq(fr, 1, Len(fr) - 1))

\* next() is called on the cursor of dummy d until it returns None, at most
\* fuel times: the nodes it returns.
RECURSIVE Drain(_, _, _)
Drain(m, d, fuel) ==
    LET r == cursor_next(m, d, MaxNodes + 1)
    IN  IF r.ret = NONE \/ ~r.ok \/ fuel = 0
        THEN <<>>
        ELSE <<r.ret>> \o Drain(r.mem, d, fuel - 1)

\* The memory after that.
RECURSIVE Drained(_, _, _)
Drained(m, d, fuel) ==
    LET r == cursor_next(m, d, MaxNodes + 1)
    IN  IF r.ret = NONE \/ ~r.ok \/ fuel = 0
        THEN r.mem
        ELSE Drained(r.mem, d, fuel - 1)

\* A full traversal from a fresh cursor, the cursors fr being dropped first:
\* TailList::cursor and next() until None.
FreshTraversal(m, fr) ==
    Drain(insert_at(Ext(Release(m, fr)), HEAD, NoVal, Scratch), Scratch,
          MaxNodes + 1)

\* The value nodes after node n in the list, in list order.
After(m, n) == ValueNodes(m, Chain(m, n, MaxNodes + 1))

First(s) == IF s = <<>> THEN NONE ELSE s[1]
Without(s, n) == SelectSeq(s, LAMBDA x : x # n)

\* ------------------------------------------------------------------ claims
Reverse(s) == [i \in 1..Len(s) |-> s[Len(s) + 1 - i]]
IsPrefix(s, t) == Len(s) <= Len(t) /\ SubSeq(t, 1, Len(s)) = s

\* C1: after every public call, every node reached from the head has its
\* owning_link naming the link that owns it.
BackLinkInv == BackLinkOK

\* C2: pushing v0..v(n-1) onto the empty list and calling next() on a fresh
\* cursor until it returns nothing yields v(n-1), ..., v0, each once, and
\* then nothing: what has been yielded is always a prefix of the reversed
\* pushes, and all of it once next() has returned nothing.
FillOrder ==
    /\ IsPrefix(yielded, Reverse(pushed))
    /\ (last.op = "next" /\ last.ret = NONE) => yielded = Reverse(pushed)

\* Reached: MaxFill values, not all equal, were pushed and next() has returned
\* nothing.
FillDrained ==
    /\ last.op = "next" /\ last.ret = NONE
    /\ Len(pushed) = MaxFill
    /\ pushed[1] # pushed[MaxFill]

\* C3: a ValRef obtained with into_passive refers, for as long as it is held,
\* to a node of the list holding the value it held then; remove() on it
\* returns that value and removes exactly that node, the other nodes keeping
\* their order.
PassiveValid ==
    \A p \in passive :
        (p.via = "into_passive" /\ ~panicked) =>
            LET r == valref_remove(Mem, p.node)
            IN  /\ p.node \in live
                /\ val[p.node] = p.orig
                /\ r.ok /\ r.ret = p.orig
                /\ ListNodes(r.mem) = Without(ListNodes(Mem), p.node)
                /\ Len(ListNodes(r.mem)) = Len(ListNodes(Mem)) - 1

\* C4: insert_before(X) on the handle that next() returned last, for node N:
\* a full traversal from a fresh cursor afterwards yields what it would have
\* yielded before, and the new node, holding X, once, immediately before N.
InsertBeforeSeen ==
    [][\A v \in Values, k \in BOOLEAN :
         TailInsert(TRUE, v, k) =>
            LET old == FreshTraversal(Mem, frames)
                new == FreshTraversal(MemNext, frames')
                X == last'.ret
            IN  /\ val'[X] = v
                /\ Len(new) = Len(old) + 1
                /\ Without(new, X) = old
                /\ \E i \in 1..Len(new) - 1 : new[i] = X /\ new[i + 1] = Cur
                /\ \A i \in 1..Len(old) : val'[old[i]] = val[old[i]]
      ]_vars

\* The memory once the cursors deeper than cursor i are dropped, which is
\* when cursor i can be used.
Resumed(i) == Release(Mem, SubSeq(frames, i + 1, Top))

\* next() called on cursor i until None yields the value nodes after its
\* sentinel, in list order, each once.
YieldsInOrder ==
    \A i \in 1..Top :
        ~panicked =>
        LET m == Resumed(i)
            d == frames[i].dummy
        IN  /\ Drain(m, d, MaxNodes + 1) = After(m, d)
            /\ \A j, k \in 1..Len(After(m, d)) :
                   After(m, d)[j] = After(m, d)[k] => j = k

\* A value node of the list that is not after the sentinel of cursor i is not
\* after it one call later.
StaysBehind ==
    \A i \in 1..Top :
        (~panicked' /\ i <= Len(frames') /\ frames'[i].dummy = frames[i].dummy) =>
            \A n \in live \cap live' :
                LET d == frames[i].dummy
                    in(s) == \E j \in 1..Len(s) : s[j] = n
                IN  (val[n] # NoVal /\ in(ListNodes(Mem)) /\ ~in(After(Mem, d)))
                        => ~in(After(MemNext, d))

\* C5: whatever was inserted and removed through the handles returned so far,
\* the successive next() calls of a cursor yield the value nodes after its
\* sentinel in list order, each once, and a node before its sentinel, such as
\* one inserted there, never comes to be after it, so that it is not yielded.
CursorOrder == []YieldsInOrder /\ [][StaysBehind]_vars

\* C6: remove() on the handle that next() returned last, for node N, returns
\* the value of N, takes N out of what a full traversal from a fresh cursor
\* yields and leaves the rest, so that the list has one value node fewer, and
\* the next() that follows on the same cursor returns the value node that
\* followed N, or None if there was none.
RemoveSeen ==
    [][TailRemove =>
         LET N == Cur
             old == FreshTraversal(Mem, frames)
             new == FreshTraversal(MemNext, frames')
             r == cursor_next(MemNext, frames[Top].dummy, MaxNodes + 1)
         IN  /\ ~panicked'
             /\ last'.ret = val[N] /\ val[N] # NoVal
             /\ N \notin live'
             /\ new = Without(old, N)
             /\ Len(ValueNodes(MemNext, ListNodes(MemNext)))
                    = Len(ValueNodes(Mem, ListNodes(Mem))) - 1
             /\ r.ok /\ r.ret = First(After(Mem, N))
      ]_vars

\* C7: tail() or into_tail() on the handle H that next() of cursor C returned:
\* the new cursor, drained until None, yields the values that C, drained from
\* there, would have yielded, and H holds its value before and after that.
SplitSame ==
    [][(TailCursor \/ \E k \in BOOLEAN : IntoTail(k)) =>
         LET H == Cur
             T == frames'[Len(frames')].dummy
             want == Drain(Mem, frames[Top].dummy, MaxNodes + 1)
             got == Drain(MemNext, T, MaxNodes + 1)
         IN  /\ ValsOf(MemNext, got) = ValsOf(Mem, want)
             /\ val[H] # NoVal
             /\ val'[H] = val[H]
             /\ Drained(MemNext, T, MaxNodes + 1).val[H] = val[H]
      ]_vars

\* C8: a cursor since whose creation nothing was inserted or removed, whatever
\* the number of next() calls on it: dropping it leaves the list with the
\* nodes it had before the cursor was created, in that order, the sentinels
\* of the enclosing cursors included, and next() on the cursor it was split
\* from then returns the value node following the head it was split from, or
\* None if there is none.
RoundTrip ==
    \A i \in 1..Top :
        (~panicked /\ frames[i].mut = Clean) =>
            LET r == unlink(Resumed(i), frames[i].dummy)
                q == cursor_next(r.mem, frames[i - 1].dummy, MaxNodes + 1)
            IN  /\ ListNodes(r.mem) = frames[i].snap
                /\ frames[i].head # NONE =>
                       q.ok /\ q.ret = First(After(r.mem, frames[i].head))

\* C9: a cursor split off with tail() or into_tail(), through whose handles
\* something was inserted or removed, has been dropped: next() called on the
\* cursor it was split from until None yields the value nodes that are then
\* in the list after that cursor's sentinel, in order, each once, and so no
\* node that was removed.
ParentSees ==
    \A i \in 1..Top :
        (~panicked /\ frames[i].kid) =>
            LET m == Resumed(i)
                d == frames[i].dummy
                got == Drain(m, d, MaxNodes + 1)
            IN  /\ got = After(m, d)
                /\ \A j \in 1..Len(got) :
                       /\ got[j] \in m.live
                       /\ \A k \in 1..Len(got) : got[j] = got[k] => j = k

\* A cursor whose next() has returned None: next() on it returns None.
ExhaustedStays ==
    \A i \in 1..Top :
        (~panicked /\ frames[i].done) =>
            LET r == cursor_next(Resumed(i), frames[i].dummy, MaxNodes + 1)
            IN  r.ok /\ r.ret = NONE

\* A next() that returns None leaves the nodes of the list, sentinels
\* included, in their places.
NoneKeepsList ==
    (CursorNext /\ last'.ret = NONE /\ ~panicked') =>
        ListNodes(MemNext) = ListNodes(Mem)

\* C10: once next() of a cursor has returned None it returns None on every
\* later call, whatever is inserted or removed in between through the handles
\* that are held, and a next() that returns None leaves the list, the place
\* of the sentinel included, as it was.
Exhaustion == []ExhaustedStays /\ [][NoneKeepsList]_vars

\* The dummy nodes reached from the head.
Sentinels == SelectSeq(ListNodes(Mem), LAMBDA n : val[n] = NoVal)

\* C11: the value-absent nodes reached from the head are the sentinels of the
\* live cursors, one for each cursor and none besides; when no cursor is live
\* the list holds value nodes only.
SentinelAccounting ==
    ~panicked =>
        /\ Len(Sentinels) = Top
        /\ \A i \in 1..Top : \E j \in 1..Len(Sentinels) :
               Sentinels[j] = frames[i].dummy
        /\ \A i, j \in 1..Top : frames[i].dummy = frames[j].dummy => i = j
        /\ Top = 0 => Sentinels = <<>>

\* The nodes the live TailValRef and ValRef handles refer to.
HandleNodes ==
    ({frames[i].cur : i \in 1..Top} \ {NONE}) \cup {p.node : p \in passive}

\* C12: every handle that next(), insert_before or insert_after has returned
\* refers to a node that bears a value, so that deref on it does not end in
\* 'cannot deref dummy node', and no remove() ends in a panic ('cannot remove
\* dummy node').
NoDummyHandle ==
    /\ \A n \in HandleNodes : n \in live /\ val[n] # NoVal
    /\ last.op = "remove" => ~panicked

\* The live handles: the node each refers to and the cursor that produced it
\* (for a ValRef returned by an insert, the cursor of the handle it was
\* called on).
Handles ==
    {[node |-> frames[i].cur, lvl |-> i, ref |-> FALSE] :
         i \in {j \in 1..Top : frames[j].cur # NONE}}
    \cup {[node |-> p.node, lvl |-> p.lvl, ref |-> TRUE] : p \in passive}

\* No two live handles refer to the same node.
NoSharedNode ==
    \A g, h \in Handles : g.node = h.node => g = h

\* No live handle refers to a node after the sentinel of a live cursor, the
\* cursor that produced the handle and the cursors split off below it excepted.
NotBehindOthers ==
    \A h \in Handles : \A j \in 1..Top :
        j < h.lvl =>
            \A k \in 1..Len(Chain(Mem, frames[j].dummy, MaxNodes + 1)) :
                Chain(Mem, frames[j].dummy, MaxNodes + 1)[k] # h.node

\* C13: in every run the borrows allow, no two live ValRef or TailValRef
\* handles refer to the same node, and no live handle refers to a node lying
\* after the sentinel of a live cursor other than the cursor that produced the
\* handle or a descendant of that cursor.
HandleExclusivity == ~panicked => (NoSharedNode /\ NotBehindOthers)

\* ------------------------------------------------- the round-trip scenario
\* let mut l = TailList::new(); l.push(0); l.push(1); l.push(2);
\* let mut c = l.cursor(); c.next(); let mut h = c.next().unwrap();
\* h.insert_before(9); drop(h); c.next();
\* The scenario has five nodes at once, one more than MaxNodes: its memory
\* has the cells 1..Scratch.  A cell holds Some(v) as v + 1, NoVal being None.
Some(v) == v + 1
Unwrap(c) == c - 1

InitTrip ==
    /\ link = [l \in 0..Scratch |-> NONE]
    /\ owning_link = [n \in 1..Scratch |-> HEAD]
    /\ val = [n \in 1..Scratch |-> NoVal]
    /\ live = {}
    /\ frames = <<>>
    /\ passive = {}
    /\ last = [op |-> "new", node |-> NONE, ret |-> NONE]
    /\ panicked = FALSE
    /\ ub = FALSE
    /\ pushed = <<>>
    /\ yielded = <<>>

\* l.push(0); l.push(1); l.push(2)
TripPush ==
    /\ Len(pushed) < 3
    /\ PushCore(Some(Len(pushed)))
    /\ pushed' = Append(pushed, Len(pushed))
    /\ UNCHANGED yielded

\* let mut c = l.cursor()
TripCursor ==
    /\ Len(pushed) = 3
    /\ CursorCore
    /\ UNCHANGED <<pushed, yielded>>

\* c.next(): the first handle is dropped at once, the second one is kept for
\* the insert, the third call follows the drop of that handle.
TripNext ==
    /\ Len(yielded) < 2 \/ (Len(yielded) = 2 /\ last.op = "drop_ref")
    /\ NextCore(Len(yielded) = 1)
    /\ yielded' = IF last'.ret = NONE THEN Append(yielded, NONE - 1)
                  ELSE Append(yielded, Unwrap(val'[last'.ret]))
    /\ UNCHANGED pushed

\* h.insert_before(9), the returned ValRef being dropped
TripInsert ==
    /\ last.op = "next"
    /\ TailInsert(TRUE, Some(9), FALSE)

\* drop(h)
TripDrop ==
    /\ last.op = "insert_before"
    /\ DropTailValRef

NextTrip ==
    \/ TripPush
    \/ TripCursor
    \/ TripNext
    \/ TripInsert
    \/ TripDrop

SpecTrip == InitTrip /\ [][NextTrip]_vars

\* The list of the scenario, as values (a dummy shows as -1).
TripList == [i \in 1..Len(ListNodes(Mem)) |-> Unwrap(val[ListNodes(Mem)[i]])]

\* C14 as stated: after push 0, push 1, push 2, a next() yielding 2, a next()
\* yielding 1 and insert_before(9) on the handle for 1, the following next()
\* on that cursor yields 1.
TripYieldsOne ==
    Len(yielded) = 3 => yielded = <<2, 1, 1>>

\* C14 as the code has it: the first two calls yield 2 and 1, the list
\* after the insert is 2, 9, 1, the dummy, 0, and the following next() yields
\* 0, the node after the dummy, leaving the list 2, 9, 1, 0, the dummy.
TripYieldsZero ==
    /\ BackLinkOK /\ ~panicked /\ ~ub
    /\ Len(yielded) <= 3
    /\ IsPrefix(yielded, <<2, 1, 0>>)
    /\ last.op = "insert_before" => TripList = <<2, 9, 1, -1, 0>>
    /\ Len(yielded) = 3 => TripList = <<2, 9, 1, 0, -1>>

\* C14 witness: the third next() of the scenario has returned.
TripDone ==
    Len(yielded) = 3 /\ last.op = "next" /\ last.ret # NONE

\* ------------------------------------------ the algorithms on their own
\* The structural algorithms applied once to a list as the program builds
\* them: the nodes s in list order, every back link naming the owning link,
\* the node n holding w[n] (NoVal for a dummy), the other cells free.
InList(s, n) == \E i \in 1..Len(s) : s[i] = n

Lists ==
    {s \in UNION {[1..k -> Nodes] : k \in 0..MaxNodes} :
        \A i, j \in 1..Len(s) : s[i] = s[j] => i = j}

MemOf(s, w) ==
    [link |-> [l \in Links |->
                  IF l = HEAD THEN (IF s = <<>> THEN NONE ELSE s[1])
                  ELSE IF \E i \in 1..Len(s) - 1 : s[i] = l
                  THEN s[(CHOOSE i \in 1..Len(s) - 1 : s[i] = l) + 1]
                  ELSE NONE],
     owning_link |-> [n \in Nodes |->
                  IF \E i \in 2..Len(s) : s[i] = n
                  THEN s[(CHOOSE i \in 2..Len(s) : s[i] = n) - 1]
                  ELSE HEAD],
     val |-> [n \in Nodes |-> IF InList(s, n) THEN w[n] ELSE NoVal],
     live |-> {s[i] : i \in 1..Len(s)}]

InitList ==
    /\ \E s \in Lists, w \in [Nodes -> 0..MaxVal] :
        /\ link = MemOf(s, w).link
        /\ owning_link = MemOf(s, w).owning_link
        /\ val = MemOf(s, w).val
        /\ live = MemOf(s, w).live
    /\ frames = <<>>
    /\ passive = {}
    /\ last = [op |-> "new", node |-> NONE, ret |-> NONE]
    /\ panicked = FALSE
    /\ ub = FALSE
    /\ pushed = <<>>
    /\ yielded = <<>>

\* The list has not been touched yet.
Untouched == last.op = "new"

\* swap_places(a, b) on two distinct nodes of the list
ApplySwapPlaces(a, b) ==
    /\ Untouched
    /\ a \in live /\ b \in live /\ a # b
    /\ SetMem(swap_places(Mem, a, b))
    /\ Call("swap_places", a, b)
    /\ UNCHANGED <<frames, passive, panicked, ub>> /\ NoGhost

NextSwap == \E a, b \in Nodes : ApplySwapPlaces(a, b)

SpecSwap == InitList /\ [][NextSwap]_vars

\* The list s with the nodes a and b exchanged in place.
Exchanged(s, a, b) ==
    [i \in 1..Len(s) |-> IF s[i] = a THEN b ELSE IF s[i] = b THEN a ELSE s[i]]

\* The back link of node n names a link that owns n (nothing to say of NONE).
EdgeOK(m, n) == n = NONE \/ m.link[m.owning_link[n]] = n

\* C15: swap_places on two distinct nodes A and B of a list, adjacent or
\* not, exchanges them in place (the link that owned A owns B, the link that
\* owned B owns A, what followed the one follows the other), moves no value,
\* and leaves the back links right for A, for B and for the node following
\* each.
SwapPlacesExchanges ==
    [][last'.op = "swap_places" =>
          /\ ListNodes(MemNext) = Exchanged(ListNodes(Mem), last'.node, last'.ret)
          /\ val' = val
          /\ live' = live
          /\ EdgeOK(MemNext, last'.node)
          /\ EdgeOK(MemNext, last'.ret)
          /\ EdgeOK(MemNext, link'[last'.node])
          /\ EdgeOK(MemNext, link'[last'.ret])]_vars

\* The list t is the list s with the dummy d moved from its place, over
\* dummies only, to the place right after node n.
MovedBehind(s, t, d, n) ==
    \E i \in 1..Len(s), k \in 0..Len(s) :
        /\ i + k + 1 <= Len(s)
        /\ s[i] = d
        /\ s[i + k + 1] = n
        /\ \A j \in 1..k : val[s[i + j]] = NoVal
        /\ t = SubSeq(s, 1, i - 1) \o SubSeq(s, i + 1, i + k) \o <<n, d>>
                 \o SubSeq(s, i + k + 2, Len(s))

\* C16: when next() returns a handle for node N, the cursor's dummy is N's
\* immediate successor, the nodes that followed N before the call follow the
\* dummy in the same order, and N is where the dummy was before the call,
\* preceded only by the dummies of other cursors that were skipped.
NextStep ==
    [][(last'.op = "next" /\ last'.ret # NONE /\ ~panicked') =>
          /\ link'[last'.ret] = last'.node
          /\ Chain(MemNext, last'.node, MaxNodes + 1)
                 = Chain(Mem, last'.ret, MaxNodes + 1)
          /\ MovedBehind(ListNodes(Mem), ListNodes(MemNext), last'.node,
                         last'.ret)]_vars

\* C16 witness: the next() of a cursor split from a handle has skipped the
\* dummy of the cursor that returned that handle, and has returned the node
\* behind it.
NextSkipped ==
    /\ Top = 2 /\ ~ub /\ ~panicked
    /\ last.op = "next" /\ last.node = frames[2].dummy /\ last.ret # NONE
    /\ owning_link[last.ret] = frames[1].dummy
    /\ link[last.ret] = frames[2].dummy

\* insert_at(link, val) on a link of the list, the new node boxed in cell n;
\* val may be None (Cursor::new inserts a dummy).
ApplyInsertAt(l, v, n) ==
    /\ Untouched
    /\ l = HEAD \/ l \in live
    /\ n \in Free
    /\ SetMem(insert_at(Mem, l, v, n))
    /\ Call("insert_at", l, n)
    /\ UNCHANGED <<frames, passive, panicked, ub>> /\ NoGhost

NextInsertAt == \E l \in Links, v \in 0..MaxVal, n \in Nodes : ApplyInsertAt(l, v, n)

SpecInsertAt == InitList /\ [][NextInsertAt]_vars

\* The list s with node n put right behind link l (l = HEAD: in front).
InsertedAt(s, l, n) ==
    IF l = HEAD THEN <<n>> \o s
    ELSE LET i == CHOOSE j \in 1..Len(s) : s[j] = l
         IN  SubSeq(s, 1, i) \o <<n>> \o SubSeq(s, i + 1, Len(s))

\* C17: after insert_at(link, v), link owns the newly created node (the
\* returned reference), the new node's next link owns what link owned before
\* (nothing if link was empty), and every other link and node is as before:
\* same successor, same value, same owner, the displaced node being owned by
\* the new node's link and its back link saying so.
InsertAtFrame ==
    [][last'.op = "insert_at" =>
          /\ last'.ret \notin live /\ live' = live \cup {last'.ret}
          /\ link'[last'.node] = last'.ret
          /\ owning_link'[last'.ret] = last'.node
          /\ link'[last'.ret] = link[last'.node]
          /\ \A k \in Links \ {last'.node, last'.ret} : link'[k] = link[k]
          /\ \A x \in Nodes \ {last'.ret} :
                /\ val'[x] = val[x]
                /\ owning_link'[x] = IF x = link[last'.node] THEN last'.ret
                                     ELSE owning_link[x]
          /\ ListNodes(MemNext) = InsertedAt(ListNodes(Mem), last'.node, last'.ret)
          /\ BackLinkOK']_vars

\* C17 witness: insert_at has put a new node between two nodes of the list.
InsertAtMiddle ==
    /\ last.op = "insert_at" /\ last.node # HEAD
    /\ link[last.node] = last.ret /\ link[last.ret] # NONE

\* unlink(node_ref) on a node of the list, a value node or a dummy, as
\* Drop for Cursor calls it.
ApplyUnlink(n) ==
    /\ Untouched
    /\ n \in live
    /\ LET r == unlink(Mem, n)
       IN  /\ SetMem(r.mem)
           /\ panicked' = ~r.ok
           /\ Call("unlink", n, r.ret)
    /\ UNCHANGED <<frames, passive, ub>> /\ NoGhost

\* ValRef::remove on a node of the list
ApplyRemove(n) ==
    /\ Untouched
    /\ n \in live
    /\ LET r == valref_remove(Mem, n)
       IN  /\ SetMem(r.mem)
           /\ panicked' = ~r.ok
           /\ Call("remove", n, r.ret)
    /\ UNCHANGED <<frames, passive, ub>> /\ NoGhost

NextUnlink ==
    \/ \E n \in Nodes : ApplyUnlink(n)
    \/ \E n \in Nodes : ApplyRemove(n)

SpecUnlink == InitList /\ [][NextUnlink]_vars

\* C18: after unlink(node), the link that owned node owns node's former
\* successor (nothing if there was none), node is the one cell freed, its
\* next link owns nothing when it is freed, so that no successor goes with
\* it, and every other node and link is as before: same successor, same
\* value, same owner, the successor's back link naming the link that owns it
\* now.
UnlinkFrame ==
    [][last'.op = "unlink" =>
          /\ link[owning_link[last'.node]] = last'.node
          /\ link'[owning_link[last'.node]] = link[last'.node]
          /\ last'.node \in live /\ live' = live \ {last'.node}
          /\ unlink(Mem, last'.node).mem.link[last'.node] = NONE
          /\ last'.ret = val[last'.node]
          /\ \A k \in Links \ {last'.node, owning_link[last'.node]} :
                link'[k] = link[k]
          /\ \A x \in Nodes \ {last'.node} :
                /\ val'[x] = val[x]
                /\ owning_link'[x] = IF x = link[last'.node]
                                     THEN owning_link[last'.node]
                                     ELSE owning_link[x]
          /\ ListNodes(MemNext) = Without(ListNodes(Mem), last'.node)
          /\ BackLinkOK']_vars

\* C18 witness: unlink has taken a value node out of a list of three or more.
UnlinkMiddle ==
    /\ last.op = "unlink" /\ ~panicked
    /\ last.ret # NoVal /\ last.node \notin live
    /\ Len(ListNodes(Mem)) >= 2

\* C19 as stated: unlink on a dummy node fails fast instead of completing.
UnlinkDummyFails ==
    [][(last'.op = "unlink" /\ val[last'.node] = NoVal) => panicked']_vars

\* C19 as the code has it: unlink on a dummy node completes, taking the
\* node out of the list and returning None; it is ValRef::remove that fails
\* fast (unreachable!) when the unlink it has made returns None.
UnlinkDummyNone ==
    [][/\ (last'.op = "unlink" /\ val[last'.node] = NoVal) =>
              /\ ~panicked'
              /\ last'.ret = NoVal
              /\ live' = live \ {last'.node}
              /\ ListNodes(MemNext) = Without(ListNodes(Mem), last'.node)
       /\ (last'.op = "remove" /\ val[last'.node] = NoVal) =>
              /\ panicked'
              /\ live' = live \ {last'.node}]_vars

\* C19 witness: unlink has returned None for a dummy that had a successor.
UnlinkDummyDone ==
    /\ last.op = "unlink" /\ last.ret = NoVal /\ ~panicked
    /\ last.node \notin live /\ live # {}

\* The nodes behind the dummy of cursor i.
Behind(i) == Chain(Mem, frames[i].dummy, MaxNodes + 1)

\* C20: Cursor::next always returns, also with the dummies of nested cursors
\* next to each other: every call of the recursion swaps the dummy one node
\* forward, so on any live cursor it returns after at most as many swaps as
\* there are nodes behind the dummy, and no call of next() has failed to.
NextTerminates ==
    /\ (~panicked /\ ~ub) =>
           \A i \in 1..Top :
               /\ Len(Behind(i)) <= MaxNodes
               /\ cursor_next(Mem, frames[i].dummy, Len(Behind(i))).ok
    /\ last.op = "next" => ~panicked

\* C20 witness: a next() has swapped the dummy of a split cursor over the
\* dummy of the cursor it was split from and has returned None at the end of
\* the list.
NextSkippedToEnd ==
    /\ Top = 2 /\ ~ub /\ ~panicked
    /\ last.op = "next" /\ last.node = frames[2].dummy /\ last.ret = NONE
    /\ owning_link[frames[2].dummy] = frames[1].dummy
    /\ link[frames[2].dummy] = NONE

\* TailValRef::tail made on the handle of node n in memory m, and next()
\* called on the new cursor until None: the nodes it returns.
SplitTraversal(m, n) ==
    Drain(insert_at(Ext(m), insert_after_link(m, n), NoVal, Scratch), Scratch,
          MaxNodes + 1)

\* C21: insert_after(X) on the handle that next() of a cursor returned last,
\* for node N, puts the new node, holding X, behind N and in front of the
\* cursor's sentinel; the same cursor, called until None, does not yield it,
\* nor does a cursor split from that handle; a full traversal from a fresh
\* cursor, all handles released, yields it once, immediately after N.
InsertAfterHidden ==
    [][\A v \in Values, k \in BOOLEAN :
         TailInsert(FALSE, v, k) =>
            LET N == Cur
                X == last'.ret
                d == frames[Top].dummy
                new == FreshTraversal(MemNext, frames')
                in(s) == \E i \in 1..Len(s) : s[i] = X
            IN  /\ val'[X] = v
                /\ link'[N] = X
                /\ \E i \in 1..Len(Chain(MemNext, X, MaxNodes + 1)) :
                       Chain(MemNext, X, MaxNodes + 1)[i] = d
                /\ ~in(Drain(MemNext, d, MaxNodes + 1))
                /\ ~in(SplitTraversal(MemNext, N))
                /\ \E i \in 1..Len(new) - 1 : new[i] = N /\ new[i + 1] = X
                /\ \A i, j \in 1..Len(new) : new[i] = new[j] => i = j
      ]_vars

====
